---- MODULE Spec2Model ----
(***************************************************************************)
(* Model of Scripts/data_ingestion/data_processor.py: CrimeDataProcessor,  *)
(* its load cache, the column standardizer, the two loaders, the           *)
(* time-series merge and the export.                                       *)
(*                                                                         *)
(* A DataFrame is [columns, data, index]: the column labels in order, one  *)
(* sequence of cells per row, and the index labels.  A cell is             *)
(* [t, n, s]: t = "int" (value n), "str" (characters s) or "nan".          *)
(* Strings whose characters matter (year cells, lga names, sheet names)    *)
(* are sequences of one-character strings; column labels and dictionary    *)
(* keys, only ever compared for equality, are TLA+ strings.                *)
(***************************************************************************)
EXTENDS Integers, Sequences, FiniteSets, TLC

VARIABLES
    files,        \* DATA_DIR: dataset name -> [exists, sheets] (the workbook)
    loaded_data,  \* self.loaded_data: dataset name -> None | Some(DataFrame)
    written,      \* OUTPUT_DIR: the paths of the files written so far
    result,       \* the last call: its arguments, its outcome and what it returned
    probe         \* the argument of a direct call of a helper (standardizer)

vars == <<files, loaded_data, written, result, probe>>

-----------------------------------------------------------------------------
(* Cells *)

\* F(x) with x evaluated once, before F uses it (Python evaluates an
\* assignment's right-hand side once; a LET is re-evaluated at every use).
Bind(F(_), x) == CHOOSE r \in {F(v) : v \in {x}} : TRUE

NaN == [t |-> "nan", n |-> 0, s |-> <<>>]

IntCell(v) == [t |-> "int", n |-> v, s |-> <<>>]

StrCell(chars) == [t |-> "str", n |-> 0, s |-> chars]

isna(c) == c.t = "nan"

Digits == <<"0", "1", "2", "3", "4", "5", "6", "7", "8", "9">>

IsDigit(ch) == \E i \in 1..Len(Digits) : Digits[i] = ch

DigitVal(ch) == (CHOOSE i \in 1..Len(Digits) : Digits[i] = ch) - 1

RECURSIVE ParseDigits(_, _)
ParseDigits(chars, acc) ==
    IF chars = <<>> THEN acc
    ELSE ParseDigits(Tail(chars), 10 * acc + DigitVal(Head(chars)))

\* pd.to_numeric(x, errors='coerce') on one cell: numbers stay, a string of
\* decimal digits becomes its value, anything unparseable becomes NaN.
to_numeric(c) ==
    CASE c.t = "int" -> c
      [] c.t = "nan" -> NaN
      [] OTHER ->
           IF c.s # <<>> /\ \A i \in 1..Len(c.s) : IsDigit(c.s[i])
           THEN IntCell(ParseDigits(c.s, 0))
           ELSE NaN

Upper == <<"A", "B", "C", "D", "E", "F", "G", "H", "I", "J", "K", "L", "M",
           "N", "O", "P", "Q", "R", "S", "T", "U", "V", "W", "X", "Y", "Z">>

Lower == <<"a", "b", "c", "d", "e", "f", "g", "h", "i", "j", "k", "l", "m",
           "n", "o", "p", "q", "r", "s", "t", "u", "v", "w", "x", "y", "z">>

\* Character order (code points) used when pandas sorts a string column.
Alphabet == <<" ", "/">> \o Digits \o Upper \o <<"_">> \o Lower

Ord(ch) == CHOOSE i \in 1..Len(Alphabet) : Alphabet[i] = ch

RECURSIVE StrLess(_, _)
StrLess(a, b) ==
    IF b = <<>> THEN FALSE
    ELSE IF a = <<>> THEN TRUE
    ELSE IF Head(a) # Head(b) THEN Ord(Head(a)) < Ord(Head(b))
    ELSE StrLess(Tail(a), Tail(b))

\* a sorts strictly before b in an ascending sort_values (na_position='last').
CellLess(a, b) ==
    CASE isna(a) -> FALSE
      [] isna(b) -> TRUE
      [] a.t = "int" /\ b.t = "int" -> a.n < b.n
      [] a.t = "str" /\ b.t = "str" -> StrLess(a.s, b.s)
      [] OTHER -> FALSE

-----------------------------------------------------------------------------
(* DataFrames *)

RangeIndex(n) == [i \in 1..n |-> i - 1]

DataFrame(cols, rows) ==
    [columns |-> cols, data |-> rows, index |-> RangeIndex(Len(rows))]

EmptyFrame == DataFrame(<<>>, <<>>)

None == [some |-> FALSE, df |-> EmptyFrame]

Some(df) == [some |-> TRUE, df |-> df]

ColPos(df, label) == {i \in 1..Len(df.columns) : df.columns[i] = label}

HasCol(df, label) == ColPos(df, label) # {}

Col(df, label) == CHOOSE i \in ColPos(df, label) : TRUE

Labels(df) == {df.columns[i] : i \in 1..Len(df.columns)}

UniqueLabels(df) == Cardinality(Labels(df)) = Len(df.columns)

\* df[label] of row r; a label the frame lacks reads as NaN (used by concat).
CellOf(df, r, label) ==
    IF HasCol(df, label) THEN df.data[r][Col(df, label)] ELSE NaN

\* A rename that leaves every label as it is.
RenameNothing(df, m) == df

\* df.rename(columns=m): labels in m's keys are replaced, the others kept.
rename(df, m) ==
    [df EXCEPT !.columns =
        [i \in 1..Len(df.columns) |->
            IF df.columns[i] \in DOMAIN m THEN m[df.columns[i]] ELSE df.columns[i]]]

\* df[label] = f(df[label]) cell by cell, for a label naming one column.
MapCol(df, label, f(_)) ==
    [df EXCEPT !.data =
        [r \in 1..Len(df.data) |->
            [df.data[r] EXCEPT ![Col(df, label)] = f(df.data[r][Col(df, label)])]]]

\* df[label] = value: overwrites the column when present, appends it otherwise.
SetCol(df, label, value) ==
    IF HasCol(df, label)
    THEN [df EXCEPT !.data =
            [r \in 1..Len(df.data) |->
                [i \in 1..Len(df.columns) |->
                    IF df.columns[i] = label THEN value ELSE df.data[r][i]]]]
    ELSE [df EXCEPT !.columns = Append(df.columns, label),
                    !.data = [r \in 1..Len(df.data) |-> Append(df.data[r], value)]]

\* df[keep], a boolean-mask selection: the kept rows keep their index labels.
RECURSIVE KeptRows(_, _, _)
KeptRows(df, keep, r) ==
    IF r > Len(df.data) THEN <<>>
    ELSE (IF r \in keep THEN <<r>> ELSE <<>>) \o KeptRows(df, keep, r + 1)

Select(df, keep) ==
    LET rs == KeptRows(df, keep, 1)
    IN  [columns |-> df.columns,
         data    |-> [k \in 1..Len(rs) |-> df.data[rs[k]]],
         index   |-> [k \in 1..Len(rs) |-> df.index[rs[k]]]]

\* The labels of b that a lacks, in b's order.
RECURSIVE NewLabels(_, _, _)
NewLabels(a, b, i) ==
    IF i > Len(b.columns) THEN <<>>
    ELSE (IF HasCol(a, b.columns[i]) THEN <<>> ELSE <<b.columns[i]>>)
         \o NewLabels(a, b, i + 1)

\* pd.concat([a, b], ignore_index=True) of two frames with unique labels: the
\* columns are a's followed by b's new ones, a's rows precede b's, a cell of a
\* column its frame lacks is NaN, and the index is renumbered.
concat(a, b) ==
    LET cols == a.columns \o NewLabels(a, b, 1)
        rowA(r) == [i \in 1..Len(cols) |-> CellOf(a, r, cols[i])]
        rowB(r) == [i \in 1..Len(cols) |-> CellOf(b, r, cols[i])]
    IN  DataFrame(cols,
                  [r \in 1..Len(a.data) |-> rowA(r)]
                  \o [r \in 1..Len(b.data) |-> rowB(r)])

\* Row i sorts strictly before row j under the keys `by`, taken in order.
RECURSIVE RowLess(_, _, _, _)
RowLess(df, by, i, j) ==
    IF by = <<>> THEN FALSE
    ELSE LET ci == CellOf(df, i, Head(by))
             cj == CellOf(df, j, Head(by))
         IN  \/ CellLess(ci, cj)
             \/ ~CellLess(cj, ci) /\ RowLess(df, Tail(by), i, j)

\* Stable insertion of row r into the sorted sequence of row numbers rs.
RECURSIVE InsertRow(_, _, _, _)
InsertRow(df, by, rs, r) ==
    IF rs = <<>> THEN <<r>>
    ELSE IF RowLess(df, by, r, Head(rs)) THEN <<r>> \o rs
    ELSE <<Head(rs)>> \o InsertRow(df, by, Tail(rs), r)

RECURSIVE SortedRows(_, _, _)
SortedRows(df, by, n) ==
    IF n = 0 THEN <<>>
    ELSE InsertRow(df, by, SortedRows(df, by, n - 1), n)

\* df.sort_values(by): ascending, stable over several keys (lexsort), NaN last;
\* every row keeps its index label.
sort_values(df, by) ==
    LET rs == SortedRows(df, by, Len(df.data))
    IN  [columns |-> df.columns,
         data    |-> [k \in 1..Len(rs) |-> df.data[rs[k]]],
         index   |-> [k \in 1..Len(rs) |-> df.index[rs[k]]]]

\* df.reset_index(drop=True)
reset_index(df) == [df EXCEPT !.index = RangeIndex(Len(df.data))]

-----------------------------------------------------------------------------
(* CrimeDataProcessor: the tables of names *)

COLUMN_MAPPINGS_2012_2021 ==
    ("Year" :> "year") @@
    ("Year ending" :> "year_ending") @@
    ("Police Region" :> "police_region") @@
    ("Local Government Area" :> "lga_name") @@
    ("Incidents Recorded" :> "incidents_recorded") @@
    ("Rate per 100,000 population" :> "rate_per_100000") @@
    ("Offence Division" :> "offence_division") @@
    ("Offence Subdivision" :> "offence_subdivision") @@
    ("Offence Subgroup" :> "offence_subgroup") @@
    ("Police Service Area" :> "police_service_area") @@
    ("Postcode" :> "postcode") @@
    ("Suburb/Town Name" :> "suburb") @@
    ("Location Division" :> "location_division") @@
    ("Location Subdivision" :> "location_subdivision") @@
    ("Location Group" :> "location_group") @@
    ("Charge Status" :> "charge_status")

COLUMN_MAPPINGS_2010_2019 ==
    ("Year" :> "year") @@
    ("Year ending" :> "year_ending") @@
    ("LGA_CODE" :> "lga_code") @@
    ("LGA_NAME" :> "lga_name") @@
    ("lga_name" :> "lga_name") @@
    ("Local Government Area" :> "lga_name") @@
    ("Offence Division" :> "offence_division") @@
    ("Offence Subdivision" :> "offence_subdivision") @@
    ("Offence Subgroup" :> "offence_subgroup") @@
    ("offence_division" :> "offence_division") @@
    ("Incidents Recorded" :> "incidents_recorded") @@
    ("incidents_recorded" :> "incidents_recorded") @@
    ("Rate per 100,000 population" :> "rate_per_100000") @@
    ("rate_per_100000" :> "rate_per_100000")

SourceTypes == {"2012_2021", "2010_2019"}

\* self.COLUMN_MAPPINGS.get(source_type, {})
COLUMN_MAPPINGS(source_type) ==
    CASE source_type = "2012_2021" -> COLUMN_MAPPINGS_2012_2021
      [] source_type = "2010_2019" -> COLUMN_MAPPINGS_2010_2019
      [] OTHER -> <<>>

DS2012 == "criminal_incidents_2012_2021"

DS2010 == "criminal_incidents_2010_2019"

Datasets == {DS2012, DS2010}

\* The two entries of DATA_FILES the processor loads (paths relative to the
\* project root).
DATA_FILES ==
    (DS2012 :> "Data/LGA_Criminal_Incidents_Year_Ending_September_2021.xlsx") @@
    (DS2010 :> "Data/LGA_Criminal_Incidents_Principal_Offence_2010_2019.xlsx")

OUTPUT_DIR == "Output_data"

-----------------------------------------------------------------------------
(* _standardize_columns *)

\* {col: mapping[col] for col in df.columns if col in mapping}
columns_to_rename(df, mapping) ==
    [col \in Labels(df) \cap DOMAIN mapping |-> mapping[col]]

\* Returns [outcome, df].  After the rename, 'year' is coerced to numeric;
\* when the rename left two columns labelled 'year', df['year'] is a frame
\* and pd.to_numeric raises TypeError.
_standardize_columns(df, source_type) ==
    LET mapping == COLUMN_MAPPINGS(source_type)
        renamed == rename(df, columns_to_rename(df, mapping))
    IN  IF ~HasCol(renamed, "year")
        THEN [outcome |-> "ok", df |-> renamed]
        ELSE IF Cardinality(ColPos(renamed, "year")) > 1
        THEN [outcome |-> "TypeError", df |-> renamed]
        ELSE [outcome |-> "ok", df |-> MapCol(renamed, "year", to_numeric)]

-----------------------------------------------------------------------------
(* Workbooks and the two loaders *)

\* A workbook file: [exists, sheets], sheets a sequence of [name, table].
Absent == [exists |-> FALSE, sheets |-> <<>>]

Workbook(sheets) == [exists |-> TRUE, sheets |-> sheets]

Sheet(name, table) == [name |-> name, table |-> table]

\* excel_file.sheet_names
sheet_names(f) == [i \in 1..Len(f.sheets) |-> f.sheets[i].name]

HasSheet(f, name) == \E i \in 1..Len(f.sheets) : f.sheets[i].name = name

\* pd.read_excel(file_path, sheet_name=name) for a sheet the workbook has
\* (pandas takes the first of that name).
read_excel(f, name) ==
    f.sheets[CHOOSE i \in 1..Len(f.sheets) :
                /\ f.sheets[i].name = name
                /\ \A j \in 1..(i - 1) : f.sheets[j].name # name].table

\* Names compared as written, without lower-casing.
AsWritten(str) == str

\* str.lower()
lower_char(ch) ==
    IF \E i \in 1..Len(Upper) : Upper[i] = ch
    THEN Lower[CHOOSE i \in 1..Len(Upper) : Upper[i] = ch]
    ELSE ch

lower(str) == [i \in 1..Len(str) |-> lower_char(str[i])]

Table01 == <<"T", "a", "b", "l", "e", " ", "0", "1">>

Table02 == <<"T", "a", "b", "l", "e", " ", "0", "2">>

CSA_2012_2021 == <<"C", "S", "A", "_", "2", "0", "1", "2", "_", "2", "0", "2", "1">>

CSA_2010_2019 == <<"C", "S", "A", "_", "2", "0", "1", "0", "_", "2", "0", "1", "9">>

September == <<"S", "e", "p", "t", "e", "m", "b", "e", "r">>

March == <<"M", "a", "r", "c", "h">>

SkippedSheets ==
    { <<"c", "o", "n", "t", "e", "n", "t", "s">>,
      <<"n", "o", "t", "e", "s">>,
      <<"m", "e", "t", "a", "d", "a", "t", "a">> }

NoMsg == [text |-> "", path |-> "", hint |-> FALSE]

\* What a call hands back: the exception class or "ok", the exception's
\* message, the returned table, the cache after the call and the dataset
\* files the call opened.
\* A failing call that also empties the cache.
RaisedClearingCache(cls, msg, cache, read) ==
    [outcome |-> cls, msg |-> msg, value |-> None,
     cache |-> [ds \in Datasets |-> None], read |-> read]

Raised(cls, msg, cache, read) ==
    [outcome |-> cls, msg |-> msg, value |-> None, cache |-> cache, read |-> read]

Returned(df, cache, read) ==
    [outcome |-> "ok", msg |-> NoMsg, value |-> Some(df), cache |-> cache,
     read |-> read]

\* The part both loaders share after the sheet is chosen: read, standardize,
\* stamp the provenance, cache under the dataset's name.
LoadSheet(fs, cache, ds, source_type, sheet_name, data_source, month) ==
    IF ~HasSheet(fs[ds], sheet_name)
    THEN Raised("ValueError", [NoMsg EXCEPT !.text = "Worksheet not found"],
                cache, {ds})
    ELSE LET Stamp(std) ==
                 IF std.outcome # "ok"
                 THEN Raised(std.outcome, NoMsg, cache, {ds})
                 ELSE LET Cache(df) ==
                              Returned(df, [cache EXCEPT ![ds] = Some(df)], {ds})
                      IN  Bind(Cache,
                               SetCol(SetCol(std.df, "data_source",
                                             StrCell(data_source)),
                                      "year_ending_month", StrCell(month)))
         IN  Bind(Stamp, _standardize_columns(read_excel(fs[ds], sheet_name),
                                              source_type))

load_criminal_incidents_2012_2021(fs, cache, sheet_name) ==
    IF ~fs[DS2012].exists
    THEN Raised("FileNotFoundError",
                [text |-> "File not found", path |-> DATA_FILES[DS2012],
                 hint |-> FALSE],
                cache, {})
    ELSE LoadSheet(fs, cache, DS2012, "2012_2021", sheet_name,
                   CSA_2012_2021, September)

\* The sheet read when the caller names none: the first whose lower-cased
\* name is not a skipped one, else the workbook's first sheet.
RECURSIVE data_sheets(_)
data_sheets(sheets) ==
    IF sheets = <<>> THEN <<>>
    ELSE (IF lower(Head(sheets)) \notin SkippedSheets
          THEN <<Head(sheets)>> ELSE <<>>) \o data_sheets(Tail(sheets))

auto_sheet(sheets) ==
    IF data_sheets(sheets) # <<>> THEN data_sheets(sheets)[1] ELSE sheets[1]

\* sheet_name is None (no sheet named) or Some-like [some, name].
NoSheet == [some |-> FALSE, name |-> <<>>]

SheetArg(name) == [some |-> TRUE, name |-> name]

load_criminal_incidents_2010_2019(fs, cache, sheet_name) ==
    IF ~fs[DS2010].exists
    THEN Raised("FileNotFoundError",
                [text |-> "File not found", path |-> DATA_FILES[DS2010],
                 hint |-> TRUE],
                cache, {})
    ELSE LET chosen == IF sheet_name.some THEN sheet_name.name
                       ELSE auto_sheet(sheet_names(fs[DS2010]))
         IN  LoadSheet(fs, cache, DS2010, "2010_2019", chosen,
                       CSA_2010_2019, March)

-----------------------------------------------------------------------------
(* merge_time_series *)

\* set(df['year'].dropna().unique())
years_of(df) ==
    {CellOf(df, r, "year").n :
        r \in {q \in 1..Len(df.data) : ~isna(CellOf(df, q, "year"))}}

\* min() mistaken for max()
SetMinAsMax(S) == CHOOSE x \in S : \A y \in S : x >= y

SetMin(S) == CHOOSE x \in S : \A y \in S : x <= y

SetMax(S) == CHOOSE x \in S : \A y \in S : x >= y

\* df[df['year'] <= bound]
YearBelowOrEqual(df, bound) ==
    Select(df, {r \in 1..Len(df.data) :
                   ~isna(CellOf(df, r, "year")) /\ CellOf(df, r, "year").n <= bound})

\* df[df['year'] >= bound]
YearAboveOrEqual(df, bound) ==
    Select(df, {r \in 1..Len(df.data) :
                   ~isna(CellOf(df, r, "year")) /\ CellOf(df, r, "year").n >= bound})

\* df[df['year'] < bound]: a NaN year compares False and is dropped.
YearBelow(df, bound) ==
    Select(df, {r \in 1..Len(df.data) :
                   ~isna(CellOf(df, r, "year")) /\ CellOf(df, r, "year").n < bound})

\* df[df['year'] > bound]
YearAbove(df, bound) ==
    Select(df, {r \in 1..Len(df.data) :
                   ~isna(CellOf(df, r, "year")) /\ CellOf(df, r, "year").n > bound})

\* sort_values(['year'])
SortKeysYearOnly == <<"year">>

SortKeys == <<"year", "lga_name">>

\* The merge of two loaded tables (both with unique labels): [outcome, df].
\* df['year'] raises KeyError on a table without the column, min()/max() of
\* an empty set raises ValueError, and sort_values raises KeyError on a key
\* the concatenation lacks.
merge_frames(df_2012, df_2010, prefer_september) ==
    IF ~HasCol(df_2012, "year") \/ ~HasCol(df_2010, "year")
    THEN [outcome |-> "KeyError", df |-> EmptyFrame]
    ELSE LET years_2012 == years_of(df_2012)
             years_2010 == years_of(df_2010)
         IN  IF (IF prefer_september THEN years_2012 ELSE years_2010) = {}
             THEN [outcome |-> "ValueError", df |-> EmptyFrame]
             ELSE LET Sorted(merged) ==
                        IF ~HasCol(merged, "lga_name")
                        THEN [outcome |-> "KeyError", df |-> EmptyFrame]
                        ELSE [outcome |-> "ok",
                              df |-> reset_index(sort_values(merged, SortKeys))]
                      ConcatEarly(df_early) == concat(df_early, df_2012)
                      ConcatLate(df_late) == concat(df_2010, df_late)
                  IN  IF prefer_september
                      THEN Bind(Sorted,
                                Bind(ConcatEarly,
                                     YearBelow(df_2010, SetMin(years_2012))))
                      ELSE Bind(Sorted,
                                Bind(ConcatLate,
                                     YearAbove(df_2012, SetMax(years_2010))))

NoDataMsg == [NoMsg EXCEPT !.text = "No data files available to merge"]

\* A cached table handed over and its entry dropped from the cache.
CachedAndDropped(cache, ds) ==
    [outcome |-> "ok", msg |-> NoMsg, value |-> cache[ds],
     cache |-> [cache EXCEPT ![ds] = None], read |-> {}]

Cached(cache, ds) ==
    [outcome |-> "ok", msg |-> NoMsg, value |-> cache[ds], cache |-> cache,
     read |-> {}]

\* The cache not consulted: the loader is called every time.
FetchAfresh2012(fs, cache) ==
    load_criminal_incidents_2012_2021(fs, cache, Table01)

\* Lines 248-261 for one dataset: the cached table, or the loader's answer.
Fetch2012(fs, cache) ==
    IF cache[DS2012].some THEN Cached(cache, DS2012)
    ELSE load_criminal_incidents_2012_2021(fs, cache, Table01)

Fetch2010(fs, cache) ==
    IF cache[DS2010].some THEN Cached(cache, DS2010)
    ELSE load_criminal_incidents_2010_2019(fs, cache, NoSheet)

\* except FileNotFoundError left out: the loader's exception leaves the merge
CaughtNothing(r) == r.outcome = "ok"

Caught(r) == r.outcome \in {"ok", "FileNotFoundError"}

\* Lines 263-294, given what the two fetches gave (a: 2012_2021, b: 2010_2019).
MergeFetched(a, b, prefer_september) ==
    LET df_2012 == IF a.outcome = "ok" THEN a.value ELSE None
        df_2010 == IF b.outcome = "ok" THEN b.value ELSE None
        read    == a.read \cup b.read
        Finish(m) == IF m.outcome = "ok"
                     THEN Returned(m.df, b.cache, read)
                     ELSE Raised(m.outcome, NoMsg, b.cache, read)
    IN  IF ~df_2012.some /\ ~df_2010.some
        THEN Raised("FileNotFoundError", NoDataMsg, b.cache, read)
        ELSE IF ~df_2012.some
        THEN Returned(df_2010.df, b.cache, read)
        ELSE IF ~df_2010.some
        THEN Returned(df_2012.df, b.cache, read)
        ELSE Bind(Finish,
                  merge_frames(df_2012.df, df_2010.df, prefer_september))

\* A dataset is taken from the cache when it has an entry and loaded through
\* its loader otherwise; FileNotFoundError from the loader leaves it None,
\* any other exception leaves merge_time_series at once.
merge_time_series(fs, cache, prefer_september) ==
    LET After2012(a) ==
            IF ~Caught(a) THEN a
            ELSE LET After2010(b) ==
                         IF ~Caught(b)
                         THEN [b EXCEPT !.read = a.read \cup b.read]
                         ELSE MergeFetched(a, b, prefer_september)
                 IN  Bind(After2010, Fetch2010(fs, a.cache))
    IN  Bind(After2012, Fetch2012(fs, cache))

-----------------------------------------------------------------------------
(* export_merged_data *)

\* A file name is [stem, ext], written stem.ext; a path adds the directory.
FileName(stem, ext) == [some |-> TRUE, stem |-> stem, ext |-> ext]

NoFileName == [some |-> FALSE, stem |-> "", ext |-> ""]

Path(dir, name) == [dir |-> dir, stem |-> name.stem, ext |-> name.ext]

NoPath == [dir |-> "", stem |-> "", ext |-> ""]

\* f"criminal_incidents_extended_2010_2021.{output_format}"
default_filename(output_format) ==
    FileName("criminal_incidents_extended_2010_2021", output_format)

\* The extensions for which pandas has an Excel writer.
ExcelExtensions == {"xlsx", "xlsm", "xls", "ods"}

\* DataFrame.to_excel(path): pandas picks the writer from the extension.  For
\* an extension it has no writer for, a build that reads the extension of a
\* Path raises ValueError and a build that defaults a Path to xlsx writes the
\* file; by_extension says which build runs.
to_excel_writes(path, by_extension) ==
    path.ext \in ExcelExtensions \/ ~by_extension

\* Lines 389-404, given the merge's answer m.  [outcome, msg, value, cache,
\* read, path, out]: as for a call, plus the path computed and the output
\* directory after the call.
ExportOf(m, out, output_format, filename, by_extension) ==
    LET name == IF filename.some THEN filename
                ELSE default_filename(output_format)
        output_path == Path(OUTPUT_DIR, name)
        put == {w \in out : w.path # output_path}
               \cup {[path |-> output_path, table |-> m.value.df]}
        base == [outcome |-> "ok", msg |-> NoMsg, value |-> m.value,
                 cache |-> m.cache, read |-> m.read, path |-> output_path,
                 out |-> out]
    IN  IF m.outcome # "ok"
        THEN [base EXCEPT !.outcome = m.outcome, !.msg = m.msg,
                          !.value = None, !.path = NoPath]
        ELSE IF output_format \in {"csv", "parquet"}
        THEN [base EXCEPT !.out = put]
        ELSE IF output_format = "excel"
        THEN IF to_excel_writes(output_path, by_extension)
             THEN [base EXCEPT !.out = put]
             ELSE [base EXCEPT !.outcome = "ValueError",
                               !.msg = [NoMsg EXCEPT !.text = "No engine for filetype"],
                               !.value = None]
        ELSE [base EXCEPT !.outcome = "ValueError",
                          !.msg = [NoMsg EXCEPT !.text = "Unsupported format"],
                          !.value = None]

export_merged_data(fs, cache, out, output_format, filename, by_extension) ==
    LET Rest(m) == ExportOf(m, out, output_format, filename, by_extension)
    IN  Bind(Rest, merge_time_series(fs, cache, TRUE))

-----------------------------------------------------------------------------
(* get_offence_trends *)

\* A float cell that is a ratio num/den (den > 0, taken exactly, without the
\* rounding of a double), or an infinity.
Ratio(num, den) == [t |-> "float", num |-> num, den |-> den]

Inf == [t |-> "inf", num |-> 1, den |-> 0]

RECURSIVE Gcd(_, _)
Gcd(a, b) == IF b = 0 THEN a ELSE Gcd(b, a % b)

Abs(x) == IF x < 0 THEN -x ELSE x

\* The elements of a finite set, one after the other.
RECURSIVE SeqOf(_)
SeqOf(S) ==
    IF S = {} THEN <<>>
    ELSE LET x == CHOOSE y \in S : TRUE IN <<x>> \o SeqOf(S \ {x})

\* The rows groupby(['year', 'offence_division']) keeps: a row with a missing
\* key belongs to no group (dropna=True).
Grouped(df) ==
    {r \in 1..Len(df.data) :
        ~isna(CellOf(df, r, "year")) /\ ~isna(CellOf(df, r, "offence_division"))}

\* 'sum' of incidents_recorded over the rows rs: missing values count 0.
RECURSIVE SumOf(_, _)
SumOf(df, rs) ==
    IF rs = {} THEN 0
    ELSE LET r == CHOOSE q \in rs : TRUE
             c == CellOf(df, r, "incidents_recorded")
         IN  (IF isna(c) THEN 0 ELSE c.n) + SumOf(df, rs \ {r})

\* df.groupby(['year', 'offence_division']).agg({'incidents_recorded': 'sum'})
\* .reset_index(): one row per pair of keys, the groups in key order.
groupby_sum(df) ==
    LET keys == {<<CellOf(df, r, "year"), CellOf(df, r, "offence_division")>> :
                    r \in Grouped(df)}
        Group(k) == {r \in Grouped(df) :
                        /\ CellOf(df, r, "year") = k[1]
                        /\ CellOf(df, r, "offence_division") = k[2]}
        rows == SeqOf({<<k[1], k[2], IntCell(SumOf(df, Group(k)))>> : k \in keys})
    IN  reset_index(sort_values(
            DataFrame(<<"year", "offence_division", "incidents_recorded">>, rows),
            <<"year", "offence_division">>))

\* (current / previous - 1) * 100 as pandas computes it in floating point: a
\* division by zero gives an infinity, and 0/0 a missing value.
pct_change_100(previous, current) ==
    IF previous = 0
    THEN (IF current = 0 THEN NaN ELSE Inf)
    ELSE LET num == 100 * (current - previous)
             g == Gcd(Abs(num), previous)
         IN  Ratio(num \div g, previous \div g)

\* trends.groupby('offence_division')['incidents_recorded'].pct_change() * 100
\* for row i of trends: against the nearest earlier row of the same
\* offence_division, missing when there is none.
yoy_change(trends, i) ==
    LET same == {j \in 1..(i - 1) :
                    CellOf(trends, j, "offence_division")
                        = CellOf(trends, i, "offence_division")}
    IN  IF same = {} THEN NaN
        ELSE pct_change_100(
                 CellOf(trends, CHOOSE j \in same : \A k \in same : k <= j,
                        "incidents_recorded").n,
                 CellOf(trends, i, "incidents_recorded").n)

\* get_offence_trends(df): [outcome, df].  Only offence_division is tested
\* for; grouping by a 'year' the table lacks, or summing an
\* incidents_recorded it lacks, raises KeyError.
get_offence_trends(df) ==
    IF ~HasCol(df, "offence_division")
    THEN [outcome |-> "ValueError", df |-> EmptyFrame]
    ELSE IF ~HasCol(df, "year") \/ ~HasCol(df, "incidents_recorded")
    THEN [outcome |-> "KeyError", df |-> EmptyFrame]
    ELSE LET WithChange(trends) ==
                 [trends EXCEPT
                    !.columns = Append(trends.columns, "yoy_change"),
                    !.data = [i \in 1..Len(trends.data) |->
                                 Append(trends.data[i], yoy_change(trends, i))]]
         IN  [outcome |-> "ok",
              df |-> Bind(WithChange,
                          sort_values(groupby_sum(df),
                                      <<"offence_division", "year">>))]

-----------------------------------------------------------------------------
(* The processor as a state machine *)

\* The record kept of the last call.
NoCall ==
    [op |-> "none", prefer |-> FALSE, fmt |-> "", filename |-> NoFileName,
     sheet |-> NoSheet, outcome |-> "ok", msg |-> NoMsg, value |-> None,
     read |-> {}, path |-> NoPath]

CallRecord(op, r) ==
    [NoCall EXCEPT !.op = op, !.outcome = r.outcome, !.msg = r.msg,
                   !.value = r.value, !.read = r.read]

NoProbe == [df |-> EmptyFrame, source_type |-> ""]

\* processor.load_criminal_incidents_2012_2021(sheet_name)
Load2012(sheet_name) ==
    \E r \in {load_criminal_incidents_2012_2021(files, loaded_data, sheet_name)} :
        /\ loaded_data' = r.cache
        /\ result' = [CallRecord("load_2012", r)
                         EXCEPT !.sheet = SheetArg(sheet_name)]
        /\ UNCHANGED <<files, written, probe>>

\* processor.load_criminal_incidents_2010_2019(sheet_name)
Load2010(sheet_name) ==
    \E r \in {load_criminal_incidents_2010_2019(files, loaded_data, sheet_name)} :
        /\ loaded_data' = r.cache
        /\ result' = [CallRecord("load_2010", r) EXCEPT !.sheet = sheet_name]
        /\ UNCHANGED <<files, written, probe>>

\* processor.merge_time_series(prefer_september)
MergeTimeSeries(prefer_september) ==
    \E r \in {merge_time_series(files, loaded_data, prefer_september)} :
        /\ loaded_data' = r.cache
        /\ result' = [CallRecord("merge", r) EXCEPT !.prefer = prefer_september]
        /\ UNCHANGED <<files, written, probe>>

\* processor.export_merged_data(output_format, filename); `written` keeps
\* the paths of OUTPUT_DIR that hold a file, and the call record keeps the
\* table written (value) and the path computed for it.
ExportMergedData(output_format, filename, by_extension) ==
    \E r \in {export_merged_data(files, loaded_data, {}, output_format,
                                 filename, by_extension)} :
        /\ loaded_data' = r.cache
        /\ written' = written \cup {w.path : w \in r.out}
        /\ result' = [CallRecord("export", r)
                         EXCEPT !.prefer = TRUE, !.fmt = output_format,
                                !.filename = filename, !.path = r.path]
        /\ UNCHANGED <<files, probe>>

\* The world outside the processor: a workbook is downloaded into DATA_DIR,
\* or removed from it.
PutFile(ds, workbook) ==
    /\ files[ds] # workbook
    /\ files' = [files EXCEPT ![ds] = workbook]
    /\ UNCHANGED <<loaded_data, written, result, probe>>

RemoveFile(ds) ==
    /\ files[ds].exists
    /\ files' = [files EXCEPT ![ds] = Absent]
    /\ UNCHANGED <<loaded_data, written, result, probe>>

\* self._standardize_columns(df, source_type) called on a table of its own.
StandardizeOf(op, df, source_type) ==
    \E r \in {_standardize_columns(df, source_type)} :
        /\ result' = [NoCall EXCEPT !.op = op, !.outcome = r.outcome,
                                    !.value = IF r.outcome = "ok"
                                              THEN Some(r.df) ELSE None]
        /\ UNCHANGED <<files, loaded_data, written, probe>>

\* The first application, on the raw table.
Standardize ==
    /\ result.op = "none"
    /\ StandardizeOf("standardize", probe.df, probe.source_type)

\* A second application, on the table the first returned.
StandardizeAgain ==
    /\ result.op = "standardize" /\ result.outcome = "ok"
    /\ StandardizeOf("standardize_again", result.value.df, probe.source_type)

\* processor.get_offence_trends(df) on a table of the caller's.
GetOffenceTrends ==
    /\ result.op = "none"
    /\ \E r \in {get_offence_trends(probe.df)} :
          result' = [NoCall EXCEPT !.op = "trends", !.outcome = r.outcome,
                                   !.value = IF r.outcome = "ok"
                                             THEN Some(r.df) ELSE None]
    /\ UNCHANGED <<files, loaded_data, written, probe>>

-----------------------------------------------------------------------------
(* The workbooks and arguments explored *)

StrA == <<"A">>

StrB == <<"B">>

NotANumber == <<"N", "/", "A">>

Headers2012 == <<"Year", "Local Government Area">>

Headers2010 == <<"Year", "LGA_NAME">>

Y(v, lga) == <<IntCell(v), StrCell(lga)>>

\* Table 01 and Table 02 of the September workbook, the data sheet of the
\* March workbook, and a contents sheet (no data columns).
SeptTable01 == DataFrame(Headers2012, <<Y(2013, StrB), Y(2012, StrB), Y(2012, StrA)>>)

SeptTable02 == DataFrame(Headers2012, <<Y(2012, StrA), <<StrCell(NotANumber), StrCell(StrA)>>>>)

MarchData == DataFrame(Headers2010, <<Y(2012, StrA), Y(2011, StrB), Y(2010, StrA)>>)

ContentsTable == DataFrame(<<"Contents">>, <<<<StrCell(Table01)>>>>)

ContentsName == <<"C", "o", "n", "t", "e", "n", "t", "s">>

DataName == <<"D", "a", "t", "a">>

SeptWorkbook == Workbook(<<Sheet(Table01, SeptTable01), Sheet(Table02, SeptTable02)>>)

MarchWorkbook == Workbook(<<Sheet(ContentsName, ContentsTable), Sheet(DataName, MarchData)>>)

Workbooks == (DS2012 :> {SeptWorkbook}) @@ (DS2010 :> {MarchWorkbook})

SheetArgs2012 == {Table01, Table02}

SheetArgs2010 == {NoSheet, SheetArg(DataName), SheetArg(ContentsName)}

Formats == {"csv", "excel", "parquet", "xml"}

FileNames == {NoFileName, FileName("merged", "xlsx")}

\* CrimeDataProcessor(): an empty cache; each workbook is there or not.
Init ==
    /\ files \in [Datasets -> {Absent, SeptWorkbook, MarchWorkbook}]
    /\ \A ds \in Datasets : files[ds] \in Workbooks[ds] \cup {Absent}
    /\ loaded_data = [ds \in Datasets |-> None]
    /\ written = {}
    /\ result = NoCall
    /\ probe = NoProbe

Next ==
    \/ \E sheet_name \in SheetArgs2012 : Load2012(sheet_name)
    \/ \E sheet_name \in SheetArgs2010 : Load2010(sheet_name)
    \/ \E prefer_september \in BOOLEAN : MergeTimeSeries(prefer_september)
    \/ \E output_format \in Formats, filename \in FileNames,
          by_extension \in BOOLEAN :
              ExportMergedData(output_format, filename, by_extension)
    \/ \E ds \in Datasets : \E workbook \in Workbooks[ds] : PutFile(ds, workbook)
    \/ \E ds \in Datasets : RemoveFile(ds)

Spec == Init /\ [][Next]_vars

-----------------------------------------------------------------------------
(* The merge over every pair of small workbooks *)

\* The rows of both workbooks together number at most MaxRows.
MaxRows == 3

Years == 2010..2012

\* A year cell as a workbook may hold it: a number, a number typed as text,
\* or text that is no number.
YearCells ==
    {IntCell(y) : y \in Years}
    \cup {StrCell(<<"2", "0", "1", "1">>), StrCell(NotANumber)}

RawRows == {<<y, StrCell(lga)>> : y \in YearCells, lga \in {StrA, StrB}}

SeptWorkbookOf(table) == Workbook(<<Sheet(Table01, table)>>)

MarchWorkbookOf(table) ==
    Workbook(<<Sheet(ContentsName, ContentsTable), Sheet(DataName, table)>>)

\* The published coverage: September years 2012..2021, March years
\* 2010..2019, one row a year, latest first.
RefSeptTable ==
    DataFrame(Headers2012,
              [i \in 1..10 |-> Y(2022 - i, IF i % 2 = 0 THEN StrA ELSE StrB)])

RefMarchTable ==
    DataFrame(Headers2010,
              [i \in 1..10 |-> Y(2020 - i, IF i % 2 = 0 THEN StrB ELSE StrA)])

FilesOf(sept, march) == (DS2012 :> sept) @@ (DS2010 :> march)

\* Both workbooks with every choice of rows, a workbook without rows also
\* missing altogether; or the two reference workbooks.
InitMerge ==
    /\ \/ \E n12 \in 0..MaxRows : \E n10 \in 0..(MaxRows - n12) :
            \E rows12 \in [1..n12 -> RawRows], rows10 \in [1..n10 -> RawRows] :
               \E sept \in {SeptWorkbookOf(DataFrame(Headers2012, rows12))}
                           \cup (IF n12 = 0 THEN {Absent} ELSE {}),
                  march \in {MarchWorkbookOf(DataFrame(Headers2010, rows10))}
                            \cup (IF n10 = 0 THEN {Absent} ELSE {}) :
                  files = FilesOf(sept, march)
       \/ files = FilesOf(SeptWorkbookOf(RefSeptTable),
                          MarchWorkbookOf(RefMarchTable))
    /\ loaded_data = [ds \in Datasets |-> None]
    /\ written = {}
    /\ result = NoCall
    /\ probe = NoProbe

NextMerge == \E prefer_september \in BOOLEAN : MergeTimeSeries(prefer_september)

SpecMerge == InitMerge /\ [][NextMerge]_vars

-----------------------------------------------------------------------------
(* Properties of the merge (SpecMerge) *)

Sept == loaded_data[DS2012].df

Mar == loaded_data[DS2010].df

Out == result.value.df

BothLoaded == loaded_data[DS2012].some /\ loaded_data[DS2010].some

MergeReturned == result.op = "merge" /\ result.outcome = "ok"

Rows(df) == 1..Len(df.data)

YearOf(df, r) == CellOf(df, r, "year")

SourceOf(df, r) == CellOf(df, r, "data_source")

YearsIn(df) == {YearOf(df, r).n : r \in {q \in Rows(df) : YearOf(df, q).t = "int"}}

\* Row r of df as a record over the labels L.
RowAs(df, r, L) == [l \in L |-> CellOf(df, r, l)]

\* How many of the rows rs of df read x over the labels L.
Count(df, rs, x, L) == Cardinality({r \in rs : RowAs(df, r, L) = x})

\* The output holds, with multiplicity, the rows `whole` of one table and
\* the rows `part` of the other, and nothing else.
MadeOf(whole, other, part) ==
    LET L == Labels(whole) \cup Labels(other)
        X == {RowAs(Out, r, L) : r \in Rows(Out)}
             \cup {RowAs(whole, r, L) : r \in Rows(whole)}
             \cup {RowAs(other, r, L) : r \in part}
    IN  /\ Labels(Out) = L
        /\ \A x \in X : Count(Out, Rows(Out), x, L)
                        = Count(whole, Rows(whole), x, L) + Count(other, part, x, L)

\* Every output row of a year in ys carries the data_source src.
SourcedFrom(ys, src) ==
    \A r \in Rows(Out) :
        (YearOf(Out, r).t = "int" /\ YearOf(Out, r).n \in ys)
            => SourceOf(Out, r) = StrCell(src)

\* C1: merge_time_series(prefer_september=true) with both tables available
\* returns every row of the September table and, of the March table, exactly
\* the rows whose year is strictly below every September year, and nothing
\* else; with March years 2010..2019 and September years 2012..2021 the years
\* 2010-2011 come from March only and 2012-2021 from September only.
C1_PreferSeptemberRows ==
    (MergeReturned /\ result.prefer /\ BothLoaded) =>
        /\ MadeOf(Sept, Mar,
                  {r \in Rows(Mar) : /\ YearOf(Mar, r).t = "int"
                                     /\ \A y \in YearsIn(Sept) : YearOf(Mar, r).n < y})
        /\ (YearsIn(Mar) = 2010..2019 /\ YearsIn(Sept) = 2012..2021) =>
              /\ SourcedFrom(2010..2011, CSA_2010_2019)
              /\ SourcedFrom(2012..2021, CSA_2012_2021)
              /\ YearsIn(Out) = 2010..2021

\* A September-preferring merge that kept one March row and dropped another.
C1_Witness ==
    /\ MergeReturned /\ result.prefer /\ BothLoaded
    /\ \E r \in Rows(Mar) : \A y \in YearsIn(Sept) : YearOf(Mar, r).t = "int" /\ YearOf(Mar, r).n < y
    /\ \E r \in Rows(Mar) : \E y \in YearsIn(Sept) : YearOf(Mar, r).t = "int" /\ YearOf(Mar, r).n >= y
    /\ \E r \in Rows(Out) : SourceOf(Out, r) = StrCell(CSA_2010_2019)

\* C2: merge_time_series(prefer_september=false) with both tables available
\* returns every row of the March table and, of the September table, exactly
\* the rows whose year is strictly above every March year, and nothing else;
\* with March years 2010..2019 and September years 2012..2021 the years
\* 2010-2019 come from March only and 2020-2021 from September only.
C2_PreferMarchRows ==
    (MergeReturned /\ ~result.prefer /\ BothLoaded) =>
        /\ MadeOf(Mar, Sept,
                  {r \in Rows(Sept) : /\ YearOf(Sept, r).t = "int"
                                      /\ \A y \in YearsIn(Mar) : YearOf(Sept, r).n > y})
        /\ (YearsIn(Mar) = 2010..2019 /\ YearsIn(Sept) = 2012..2021) =>
              /\ SourcedFrom(2010..2019, CSA_2010_2019)
              /\ SourcedFrom(2020..2021, CSA_2012_2021)
              /\ YearsIn(Out) = 2010..2021

\* A March-preferring merge that kept one September row and dropped another.
C2_Witness ==
    /\ MergeReturned /\ ~result.prefer /\ BothLoaded
    /\ \E r \in Rows(Sept) : \A y \in YearsIn(Mar) : YearOf(Sept, r).t = "int" /\ YearOf(Sept, r).n > y
    /\ \E r \in Rows(Sept) : \E y \in YearsIn(Mar) : YearOf(Sept, r).t = "int" /\ YearOf(Sept, r).n <= y
    /\ \E r \in Rows(Out) : SourceOf(Out, r) = StrCell(CSA_2012_2021)

\* C3: for either value of prefer_september, no year present in both input
\* tables has rows of both data sources in the merged output.
C3_OneSourcePerOverlapYear ==
    (MergeReturned /\ BothLoaded) =>
        \A y \in YearsIn(Sept) \cap YearsIn(Mar) :
            ~ \E r1, r2 \in Rows(Out) :
                /\ YearOf(Out, r1) = IntCell(y)
                /\ YearOf(Out, r2) = IntCell(y)
                /\ SourceOf(Out, r1) = StrCell(CSA_2010_2019)
                /\ SourceOf(Out, r2) = StrCell(CSA_2012_2021)

\* A merge over tables that share a year, whose output draws on both sources.
C3_Witness ==
    /\ MergeReturned /\ BothLoaded
    /\ YearsIn(Sept) \cap YearsIn(Mar) # {}
    /\ \E r1, r2 \in Rows(Out) :
          /\ SourceOf(Out, r1) = StrCell(CSA_2010_2019)
          /\ SourceOf(Out, r2) = StrCell(CSA_2012_2021)

-----------------------------------------------------------------------------
(* Properties of a session of calls (Spec) *)

FileExists(ds) == files[ds].exists

\* A dataset the merge can obtain: cached, or its file is there to load.
Available(ds) == loaded_data[ds].some \/ files[ds].exists

\* What the dataset's loader returns now for the sheet the merge asks for.
FreshLoad(ds) ==
    IF ds = DS2012
    THEN load_criminal_incidents_2012_2021(files, loaded_data, Table01)
    ELSE load_criminal_incidents_2010_2019(files, loaded_data, NoSheet)

\* The table the merge takes for an available dataset: the cached one, else
\* the loader's.
TableOf(ds) ==
    IF loaded_data[ds].some THEN loaded_data[ds] ELSE FreshLoad(ds).value

NoDataRaised(r) == r.outcome = "FileNotFoundError" /\ r.msg = NoDataMsg

\* The name a call of each loader is recorded under.
LoadOp == (DS2012 :> "load_2012") @@ (DS2010 :> "load_2010")

\* This step is a call of op: the files stay as they are (a download or a
\* removal changes them) and the call recorded is op.
Called(op) == files' = files /\ result'.op = op

\* C4 as claimed: whatever the cache holds, a merge with exactly one source
\* file present returns that file's standardized table unchanged, and a merge
\* with neither file present raises FileNotFoundError "No data files available
\* to merge".
C4_Original ==
    [][Called("merge") =>
        /\ (~FileExists(DS2012) /\ ~FileExists(DS2010)) => NoDataRaised(result')
        /\ \A ds \in Datasets :
              (FileExists(ds) /\ \A o \in Datasets \ {ds} : ~FileExists(o))
                  => /\ result'.outcome = "ok"
                     /\ result'.value = loaded_data'[ds]]_vars

\* C4 as amended: a dataset counts as available when it is cached or its file
\* is present.  A merge with exactly one dataset available returns that
\* dataset's table unchanged (the cached table, else the one its loader
\* produces); a merge raises FileNotFoundError "No data files available to
\* merge" exactly when neither dataset is available.
C4_OneOrNoneAvailable ==
    [][Called("merge") =>
        /\ NoDataRaised(result') <=> (~Available(DS2012) /\ ~Available(DS2010))
        /\ \A ds \in Datasets :
              (Available(ds) /\ \A o \in Datasets \ {ds} : ~Available(o))
                  => /\ result'.outcome = "ok"
                     /\ result'.value = TableOf(ds)
                     /\ loaded_data'[ds] = TableOf(ds)]_vars

\* A merge returned the one cached table, read nothing, and neither file is
\* there.
C4_Witness ==
    /\ MergeReturned /\ result.read = {}
    /\ \A ds \in Datasets : ~FileExists(ds)
    /\ loaded_data[DS2010].some /\ ~loaded_data[DS2012].some
    /\ result.value = loaded_data[DS2010]

\* Row i of the output does not sort after row j: years ascending with the
\* missing ones last, and lga_name ascending within a year.
InOrder(i, j) ==
    LET yi == YearOf(Out, i)
        yj == YearOf(Out, j)
        li == CellOf(Out, i, "lga_name")
        lj == CellOf(Out, j, "lga_name")
    IN  \/ yi.t = "int" /\ yj.t = "int" /\ yi.n < yj.n
        \/ yi.t = "int" /\ yj.t = "nan"
        \/ /\ yi = yj
           /\ \/ li = lj
              \/ lj.t = "nan"
              \/ li.t = "str" /\ lj.t = "str" /\ StrLess(li.s, lj.s)

SortedAndReindexed ==
    /\ \A i, j \in Rows(Out) : i < j => InOrder(i, j)
    /\ \A i \in Rows(Out) : Out.index[i] = i - 1

\* C5 as claimed: every table a successful merge_time_series returns is sorted
\* ascending by (year, lga_name) and indexed from 0, also when only one source
\* is available.
C5_Original == MergeReturned => SortedAndReindexed

\* C5 as amended: every table a successful merge_time_series returns when both
\* tables are available is sorted ascending by (year, lga_name) and indexed
\* from 0, for either value of prefer_september.
C5_SortedWhenBothAvailable ==
    (MergeReturned /\ BothLoaded) => SortedAndReindexed

\* A merge of both tables whose concatenation was out of order.
C5_Witness ==
    /\ MergeReturned /\ BothLoaded
    /\ Len(Out.data) >= 3
    /\ \E i, j \in Rows(Sept) : i < j /\ CellLess(YearOf(Sept, j), YearOf(Sept, i))

\* C6: export_merged_data with a format other than csv, excel and parquet
\* raises ValueError "Unsupported format" before touching the filesystem: in
\* every state of the files and the cache no source file is read, nothing is
\* written and the cache is left as it was.
C6_UnsupportedFormatFirst ==
    [][\A output_format \in Formats \ {"csv", "excel", "parquet"},
          filename \in FileNames, by_extension \in BOOLEAN :
            ExportMergedData(output_format, filename, by_extension) =>
                /\ result'.outcome = "ValueError"
                /\ result'.msg.text = "Unsupported format"
                /\ result'.read = {}
                /\ written' = written
                /\ loaded_data' = loaded_data]_vars

\* The extension the default file name is said to carry for each format.
DocumentedExt == [csv |-> "csv", excel |-> "xlsx", parquet |-> "parquet"]

\* C7: a successful export_merged_data with no filename, for each of csv,
\* excel and parquet, writes the table merged with prefer_september=true to
\* OUTPUT_DIR/criminal_incidents_extended_2010_2021.<ext>, ext being csv, xlsx
\* and parquet in turn, and returns that path.
C7_DefaultFileName ==
    [][\A output_format \in {"csv", "excel", "parquet"}, by_extension \in BOOLEAN :
            (/\ ExportMergedData(output_format, NoFileName, by_extension)
             /\ result'.outcome = "ok") =>
                /\ result'.path =
                       Path(OUTPUT_DIR,
                            FileName("criminal_incidents_extended_2010_2021",
                                     DocumentedExt[output_format]))
                /\ written' = written \cup {result'.path}
                /\ result'.value =
                       merge_time_series(files, loaded_data, TRUE).value]_vars

\* The files as the merge would see them with the workbook of every cached
\* dataset gone.
WithoutCachedFiles ==
    [ds \in Datasets |-> IF loaded_data[ds].some THEN Absent ELSE files[ds]]

\* C8: the cache is keyed by dataset name and reused within a session.  A
\* successful load of a dataset stores the table it returns under the
\* dataset's name and touches no other entry, a failed load stores nothing,
\* and an entry changes at no other time except when a merge (or the merge of
\* an export) loads a dataset that has no entry; so an entry is always the
\* table of the most recent successful load, whatever sheet it came from.  A
\* merge opens the file of a dataset exactly when the dataset has no entry and
\* its file is present, and its answer is the one it gives with the workbooks
\* of the cached datasets gone.
C8_CacheReused ==
    [][/\ \A ds \in Datasets :
            /\ Called(LoadOp[ds]) =>
                 /\ \A o \in Datasets \ {ds} : loaded_data'[o] = loaded_data[o]
                 /\ loaded_data'[ds] = IF result'.outcome = "ok"
                                       THEN result'.value ELSE loaded_data[ds]
            /\ loaded_data'[ds] # loaded_data[ds] =>
                 \/ Called(LoadOp[ds]) /\ result'.outcome = "ok"
                 \/ /\ Called("merge") \/ Called("export")
                    /\ ~loaded_data[ds].some
                    /\ ds \in result'.read
                    /\ loaded_data'[ds] = FreshLoad(ds).value
       /\ (Called("merge") \/ Called("export")) =>
            result'.read = {ds \in Datasets : ~loaded_data[ds].some /\ FileExists(ds)}
       /\ Called("merge") =>
            \E r \in {merge_time_series(WithoutCachedFiles, loaded_data,
                                        result'.prefer)} :
                r.outcome = result'.outcome /\ r.value = result'.value]_vars

\* A merge that read the March workbook only and merged it with a cached
\* Table 02, the September workbook being there with another Table 01.
C8_Witness ==
    /\ MergeReturned /\ result.read = {DS2010}
    /\ FileExists(DS2012) /\ BothLoaded
    /\ Sept.data # load_criminal_incidents_2012_2021(files, loaded_data, Table01).value.df.data
    /\ \E r \in Rows(Out) : SourceOf(Out, r) = StrCell(CSA_2012_2021)

\* C9: a load of a dataset whose file is absent raises FileNotFoundError that
\* names the expected path and, for the 2010_2019 dataset only, carries the
\* manual-download instructions; nothing is read and the cache is left as it
\* was.  The failure ends that call only: a load of the dataset while its
\* file is present reads the file and succeeds, also after a failed one.
C9_NotFoundThenFound ==
    [][\A ds \in Datasets :
          Called(LoadOp[ds]) =>
             IF FileExists(ds)
             THEN /\ result'.outcome = "ok"
                  /\ result'.read = {ds}
                  /\ loaded_data'[ds] = result'.value
             ELSE /\ result'.outcome = "FileNotFoundError"
                  /\ result'.msg.path = DATA_FILES[ds]
                  /\ result'.msg.hint = (ds = DS2010)
                  /\ result'.read = {}
                  /\ loaded_data' = loaded_data]_vars

\* A failed load of the 2010_2019 dataset that left a cached table in place;
\* the workbook has since arrived, so the next load finds it.
C9_Witness ==
    /\ result.op = "load_2010" /\ result.outcome = "FileNotFoundError"
    /\ result.msg.hint /\ result.read = {}
    /\ loaded_data[DS2012].some /\ ~loaded_data[DS2010].some
    /\ FileExists(DS2010)

-----------------------------------------------------------------------------
(* The standardizer over every small table (SpecStd) *)

\* A table has at most MaxCols columns.
MaxCols == 2

\* Every raw header of either mapping, a header already named 'year' and one
\* no mapping knows.
RawNames ==
    DOMAIN COLUMN_MAPPINGS_2012_2021 \cup DOMAIN COLUMN_MAPPINGS_2010_2019
    \cup {"year", "Extra"}

\* What the cells of the one row read: a number, a number typed as text, or
\* text that is no number.
RawCells == {IntCell(2011), StrCell(<<"2", "0", "1", "1">>), StrCell(NotANumber)}

\* A table of pairwise distinct headers and one row, and a vintage.
InitStd ==
    /\ \E n \in 0..MaxCols : \E cols \in [1..n -> RawNames] :
          /\ \A i, j \in 1..n : i # j => cols[i] # cols[j]
          /\ \E c \in RawCells, source_type \in SourceTypes :
                probe = [df |-> DataFrame(cols, <<[i \in 1..n |-> c]>>),
                         source_type |-> source_type]
    /\ files = [ds \in Datasets |-> Absent]
    /\ loaded_data = [ds \in Datasets |-> None]
    /\ written = {}
    /\ result = NoCall

NextStd == Standardize \/ StandardizeAgain

SpecStd == InitStd /\ [][NextStd]_vars

Standardized == result.op \in {"standardize", "standardize_again"} /\ result.outcome = "ok"

Raw == probe.df

Mapping == COLUMN_MAPPINGS(probe.source_type)

Mapped(i) == Raw.columns[i] \in DOMAIN Mapping

\* Column i reads as it did, or, when it is now named 'year', as a number or
\* a missing value.
CellsKept(i) ==
    \A r \in Rows(Raw) :
        IF Out.columns[i] = "year"
        THEN Out.data[r][i].t \in {"int", "nan"}
        ELSE Out.data[r][i] = Raw.data[r][i]

\* C10 as claimed: for both vintages and every raw column name of the
\* vintage's mapping that the table has, after _standardize_columns the
\* canonical name is present and the raw name is absent, the columns not in
\* the mapping keep their names, and a second application leaves the column
\* names of the first.
C10_Original ==
    [][/\ Standardized' =>
            /\ Len(Out'.columns) = Len(Raw.columns)
            /\ \A i \in 1..Len(Raw.columns) :
                  IF Mapped(i)
                  THEN /\ Mapping[Raw.columns[i]] \in Labels(Out')
                       /\ Raw.columns[i] \notin Labels(Out')
                  ELSE Out'.columns[i] = Raw.columns[i]
       /\ StandardizeAgain =>
            result'.outcome = "ok" /\ Out'.columns = Out.columns]_vars

\* C10 as amended: for both vintages and every table of pairwise distinct
\* headers on which _standardize_columns returns, a column whose raw name is
\* in the vintage's mapping carries the canonical name, in the same position,
\* and the raw name is absent unless the mapping maps it to itself; a column
\* not in the mapping keeps its name and position; every column keeps its
\* cells, except that a column now named 'year' is numeric; and a second
\* application returns the table of the first.
C10_RenamedToCanonical ==
    [][/\ Standardized' =>
            /\ Len(Out'.columns) = Len(Raw.columns)
            /\ Len(Out'.data) = Len(Raw.data)
            /\ \A i \in 1..Len(Raw.columns) :
                  /\ IF Mapped(i)
                     THEN /\ Out'.columns[i] = Mapping[Raw.columns[i]]
                          /\ Mapping[Raw.columns[i]] # Raw.columns[i]
                                => Raw.columns[i] \notin Labels(Out')
                     ELSE Out'.columns[i] = Raw.columns[i]
                  /\ CellsKept(i)'
       /\ StandardizeAgain =>
            result'.outcome = "ok" /\ result'.value = result.value]_vars

\* A table standardized twice that had a header its mapping maps to itself
\* and a header its mapping renames.
C10_Witness ==
    /\ result.op = "standardize_again" /\ result.outcome = "ok"
    /\ \E i, j \in 1..Len(Raw.columns) :
          /\ Mapped(i) /\ Mapping[Raw.columns[i]] = Raw.columns[i]
          /\ Mapped(j) /\ Mapping[Raw.columns[j]] # Raw.columns[j]
          /\ Out.columns[j] # Raw.columns[j]

-----------------------------------------------------------------------------
(* The offence trends of every small table (SpecTrends) *)

\* A table has at most MaxTrendRows rows.
MaxTrendRows == 3

TrendColumns == <<"year", "offence_division", "incidents_recorded">>

\* A row: a year, an offence division and a count; one kind of row has no
\* year.
TrendRows ==
    {<<IntCell(y), StrCell(d), IntCell(v)>> :
        y \in 2010..2012, d \in {StrA, StrB}, v \in {0, 100, 150}}
    \cup {<<NaN, StrCell(StrA), IntCell(100)>>}

\* The columns `present` (positions of TrendColumns) of the rows, in order.
TrendTable(rows, present) ==
    LET kept == SelectSeq(<<1, 2, 3>>, LAMBDA i : i \in present)
    IN  DataFrame([k \in 1..Len(kept) |-> TrendColumns[kept[k]]],
                  [r \in 1..Len(rows) |->
                      [k \in 1..Len(kept) |-> rows[r][kept[k]]]])

\* Every table of up to MaxTrendRows rows, with any of the three columns
\* left out.
InitTrends ==
    /\ \E n \in 0..MaxTrendRows : \E rows \in [1..n -> TrendRows] :
          \E present \in SUBSET (1..3) :
              probe = [df |-> TrendTable(rows, present), source_type |-> ""]
    /\ files = [ds \in Datasets |-> Absent]
    /\ loaded_data = [ds \in Datasets |-> None]
    /\ written = {}
    /\ result = NoCall

NextTrends == GetOffenceTrends

SpecTrends == InitTrends /\ [][NextTrends]_vars

Given == probe.df

DivisionOf(df, r) == CellOf(df, r, "offence_division")

IncidentsOf(df, r) == CellOf(df, r, "incidents_recorded")

\* The incidents of the first n rows of the given table that carry the year
\* y and the offence division d, added up.
RECURSIVE Total(_, _, _)
Total(y, d, n) ==
    IF n = 0 THEN 0
    ELSE Total(y, d, n - 1)
         + (IF /\ YearOf(Given, n) = y /\ DivisionOf(Given, n) = d
               /\ IncidentsOf(Given, n).t = "int"
            THEN IncidentsOf(Given, n).n ELSE 0)

\* Row i of the trends is the first of its offence division.
FirstOfDivision(i) == i = 1 \/ DivisionOf(Out, i - 1) # DivisionOf(Out, i)

\* The trends table the claim describes, for the given table.
TrendsAsClaimed ==
    /\ result.outcome = "ok"
    /\ {<<YearOf(Out, i), DivisionOf(Out, i)>> : i \in Rows(Out)}
         = {<<YearOf(Given, r), DivisionOf(Given, r)>> :
               r \in {q \in Rows(Given) : /\ ~isna(YearOf(Given, q))
                                          /\ ~isna(DivisionOf(Given, q))}}
    /\ \A i, j \in Rows(Out) :
          i < j => \/ StrLess(DivisionOf(Out, i).s, DivisionOf(Out, j).s)
                   \/ /\ DivisionOf(Out, i) = DivisionOf(Out, j)
                      /\ YearOf(Out, i).n < YearOf(Out, j).n
    /\ \A i \in Rows(Out) :
          /\ IncidentsOf(Out, i)
               = IntCell(Total(YearOf(Out, i), DivisionOf(Out, i), Len(Given.data)))
          /\ LET yoy == CellOf(Out, i, "yoy_change")
                 current == IncidentsOf(Out, i).n
             IN  IF FirstOfDivision(i) THEN yoy.t = "nan"
                 ELSE LET previous == IncidentsOf(Out, i - 1).n
                      IN  IF previous = 0 THEN yoy.t \in {"inf", "nan"}
                          ELSE /\ yoy.t = "float" /\ yoy.den > 0
                               /\ yoy.num * previous
                                    = 100 * (current - previous) * yoy.den

\* C11: get_offence_trends raises ValueError when the table has no
\* offence_division column; otherwise it returns one row per (year,
\* offence_division) with incidents_recorded summed over the group, ordered
\* by (offence_division, year), the first year of each offence division with
\* a missing yoy_change and every later row with
\* yoy_change = 100 * (current - previous) / previous.
C11_OffenceTrends ==
    result.op = "trends" =>
        IF ~HasCol(Given, "offence_division")
        THEN result.outcome = "ValueError"
        ELSE TrendsAsClaimed

-----------------------------------------------------------------------------
(* The sheet the 2010_2019 loader picks, over every small workbook
   (SpecSheets) *)

\* A workbook has at most MaxSheets sheets.
MaxSheets == 3

\* Sheet names: the three skipped ones in different cases, and two others.
SheetNames ==
    { <<"C", "o", "n", "t", "e", "n", "t", "s">>,
      <<"N", "O", "T", "E", "S">>,
      <<"m", "e", "t", "a", "d", "a", "t", "a">>,
      <<"D", "a", "t", "a">>,
      <<"T", "a", "b", "l", "e", " ", "0", "1">> }

\* The table of the sheet at position i: its one Year cell reads i.
SheetTable(i) == DataFrame(<<"Year">>, <<<<IntCell(i)>>>>)

\* The 2010_2019 workbook with one to MaxSheets sheets of distinct names.
InitSheets ==
    /\ \E n \in 1..MaxSheets : \E names \in [1..n -> SheetNames] :
          /\ \A i, j \in 1..n : i # j => names[i] # names[j]
          /\ files = FilesOf(Absent,
                             Workbook([i \in 1..n |-> Sheet(names[i], SheetTable(i))]))
    /\ loaded_data = [ds \in Datasets |-> None]
    /\ written = {}
    /\ result = NoCall
    /\ probe = NoProbe

NextSheets == Load2010(NoSheet)

SpecSheets == InitSheets /\ [][NextSheets]_vars

AutoLoaded == result.op = "load_2010" /\ ~result.sheet.some /\ result.outcome = "ok"

\* The names of the 2010_2019 workbook's sheets, in workbook order.
SheetList == sheet_names(files[DS2010])

\* The position of the sheet whose table the load returned.
SheetRead == YearOf(Out, 1).n

\* The name is contents, notes or metadata, in whatever case.
Skipped(name) ==
    \E k \in SkippedSheets :
        /\ Len(k) = Len(name)
        /\ \A i \in 1..Len(name) :
              \/ name[i] = k[i]
              \/ \E u \in 1..Len(Upper) : Upper[u] = name[i] /\ Lower[u] = k[i]

\* C12 as claimed: with no sheet named, load_criminal_incidents_2010_2019
\* reads the first sheet, in workbook order, whose name is not contents,
\* notes or metadata in any case, and for every sheet list the sheet read is
\* none of those.
C12_Original ==
    AutoLoaded =>
        /\ ~Skipped(SheetList[SheetRead])
        /\ \A i \in 1..(SheetRead - 1) : Skipped(SheetList[i])

\* C12 as amended: with no sheet named, load_criminal_incidents_2010_2019
\* reads the first sheet, in workbook order, whose name is not contents,
\* notes or metadata in any case; when every sheet of the workbook has one of
\* those names it reads the workbook's first sheet.
C12_FirstDataSheetElseFirst ==
    AutoLoaded =>
        IF \E i \in 1..Len(SheetList) : ~Skipped(SheetList[i])
        THEN /\ ~Skipped(SheetList[SheetRead])
             /\ \A i \in 1..(SheetRead - 1) : Skipped(SheetList[i])
        ELSE SheetRead = 1

\* A load that passed over two skipped sheets, one of them not in lower case,
\* and read the third.
C12_Witness ==
    /\ AutoLoaded /\ SheetRead = 3
    /\ \E i \in 1..2 : SheetList[i] # lower(SheetList[i])

-----------------------------------------------------------------------------
(* More properties of a session of calls (Spec) *)

\* What the merge makes of the two cached tables alone.
FromCache(cache, prefer_september) ==
    MergeFetched(Cached(cache, DS2012), Cached(cache, DS2010), prefer_september)

\* C13: merge_time_series (also as the first step of an export) never
\* modifies or replaces an entry the cache already has, and changes the cache
\* only by adding the entries of the datasets it loaded on demand.  With both
\* tables cached its answer is determined by the cached tables and the flag
\* alone, so it is the same whatever merges ran before, and a merge repeated
\* with the same flag returns an equal table.
C13_CacheEntriesKept ==
    [][/\ (Called("merge") \/ Called("export")) =>
            \A ds \in Datasets :
                /\ loaded_data[ds].some => loaded_data'[ds] = loaded_data[ds]
                /\ loaded_data'[ds] # loaded_data[ds] => ds \in result'.read
       /\ (Called("merge") /\ BothLoaded') =>
            \E r \in {FromCache(loaded_data', result'.prefer)} :
                result'.outcome = r.outcome /\ result'.value = r.value
       /\ (Called("merge") /\ BothLoaded /\ result.op = "merge"
              /\ result'.prefer = result.prefer) =>
            result'.outcome = result.outcome /\ result'.value = result.value]_vars

\* A merge over two cached tables that read no file, after which both entries
\* are still there; the other flag gives another table from the same cache.
C13_Witness ==
    /\ MergeReturned /\ BothLoaded /\ result.read = {}
    /\ FromCache(loaded_data, ~result.prefer).outcome = "ok"
    /\ FromCache(loaded_data, ~result.prefer).value # result.value

-----------------------------------------------------------------------------
(* More properties of the merge (SpecMerge) *)

\* C14: whenever both tables are available merge_time_series returns a table
\* and raises no error, for either value of prefer_september, also when one
\* of the tables has no row with a year.
C14_NoErrorWhenBothAvailable ==
    (result.op = "merge" /\ BothLoaded) => result.outcome = "ok"

\* C15: the merged output is an extended series: for either value of
\* prefer_september, every year that has a row in either input table has a
\* row in the output, so the years of the output are the union of the years
\* of the two inputs, also when the two ranges interleave or leave a gap.
C15_EveryYearKept ==
    (MergeReturned /\ BothLoaded) => YearsIn(Out) = YearsIn(Sept) \cup YearsIn(Mar)

------------------------------------------------------------------------------
\* More properties of _standardize_columns (SpecStd)

\* C16: _standardize_columns keeps column names unique: for both vintages and
\* every table of pairwise distinct raw headers the call returns, and the
\* headers of the table it returns are pairwise distinct, so 'year' names at
\* most one column.
C16_UniqueAfterRename ==
    result.op = "standardize" =>
        /\ result.outcome = "ok"
        /\ UniqueLabels(Out)
        /\ Cardinality({i \in 1..Len(Out.columns) : Out.columns[i] = "year"}) <= 1

====
